---------------------------- MODULE Spec2Model ----------------------------
(***************************************************************************)
(* Passwordless portal: the setup wizard (src/main.js, PasswordlessManager)*)
(* and the Temporary Access Pass manager (src/tap.js, TAPManager), as      *)
(* state machines over the browser's event loop.                           *)
(*                                                                         *)
(* Execution model.  JavaScript runs one task at a time.  An async method  *)
(* runs synchronously up to its first await and is resumed later:          *)
(*   - an await on an already settled promise (nextStep's await of         *)
(*     validateCurrentStep) is resumed from the microtask queue, before    *)
(*     any timer or event task, in first-in first-out order; only code of  *)
(*     the task that made the call (further method calls) runs in between; *)
(*     once the queue starts to drain it drains to the end;                *)
(*   - an await on a timer or on the network is resumed by a later task.   *)
(* The methods are reachable by any script through the global instances    *)
(* (window.passwordlessManager, window.tapManager), so a call may be made  *)
(* in any state.                                                           *)
(***************************************************************************)
EXTENDS Integers, Sequences, FiniteSets, TLC

VARIABLES
    \* ---- PasswordlessManager (src/main.js)
    currentStep,        \* this.currentStep
    userProgress,       \* this.userProgress
    storedProgress,     \* localStorage['passwordlessProgress']
    wizPhase,           \* where initializeApp stands
    nextQ,              \* nextStep calls suspended at their await (FIFO)
    draining,           \* the microtask queue is being drained
    verifyPending,      \* verifyRequirements calls waiting on their timer
    setupPending,       \* setupAuthenticationMethods calls waiting
    validatePending,    \* validateSetup calls waiting
    advanceTimers,      \* pending setTimeout(..., 1500) of validateSetup
    message,            \* what showMessage last put in messageContainer
    lastEvent,          \* how the step handler that ended last ended, or that
                        \* the page was loaded again since; the page's parity
    \* ---- AuthManager (src/tap.js)
    isAuthenticated,    \* window.authManager.isAuthenticated
    \* ---- TAPManager (src/tap.js)
    currentTAP,         \* this.currentTAP
    tapHistory,         \* this.tapHistory
    storedHistory,      \* localStorage['tapHistory']
    currentCountdownInterval,   \* this.currentCountdownInterval
    intervals,          \* the live setInterval timers of startTAPCountdown
    nextIntervalId,     \* the id the next setInterval returns
    tapCountdown,       \* what the tapCountdown element shows
    genCalls,           \* generateTAP calls suspended at an await
    delCalls,           \* deleteTAP calls suspended at an await
    callsMade,          \* generateTAP and deleteTAP calls made so far
    lastOp,             \* the call of TAPManager that ended last, with what
                        \* it returned or threw and the message it showed
    nextTapId,          \* the provider: the id of the next pass it issues
    now,                \* the clock, in ms (Date.now())
    \* ---- the read operations: AuthManager.getAccessToken,
    \* ---- AuthManager.checkPasswordlessStatus, TAPManager.getTAPMethods
    readCalls,          \* read calls suspended at an await
    readsMade,          \* read calls made so far
    lastRead,           \* the read call that ended last, with what it
                        \* returned or threw
    \* ---- AuthManager's session (src/tap.js) and the provider
    msalInstance,       \* this.msalInstance
    currentUser,        \* this.currentUser
    authInit,           \* where AuthManager.init() stands
    cachedAccounts,     \* the provider's cache: getAllAccounts()
    redirectResponse,   \* what handleRedirectPromise() holds for this page
    loads,              \* page loads so far
    loadedBy            \* what loaded the page, and whether the page left
                        \* had a session

wizVars == <<currentStep, userProgress, storedProgress, wizPhase, nextQ,
             draining, verifyPending, setupPending, validatePending,
             advanceTimers, message, lastEvent>>

\* null / undefined, and "no interval" (setInterval's ids are positive and
\* hideTAPDisplay tests the reference for truthiness).
Null == <<>>
NoInterval == 0

(***************************************************************************)
(* Bounds of the model.                                                    *)
(***************************************************************************)
MaxOverlap == 3      \* nextStep calls suspended at the same time
MaxInFlight == 1     \* calls of one step handler, and advance timers, pending

(***************************************************************************)
(* PasswordlessManager                                                     *)
(***************************************************************************)
totalSteps == 3

Progress == [step1 : BOOLEAN, step2 : BOOLEAN, step3 : BOOLEAN,
             passwordlessEnabled : BOOLEAN]

getDefaultProgress ==
    [step1 |-> FALSE, step2 |-> FALSE, step3 |-> FALSE,
     passwordlessEnabled |-> FALSE]

\* JSON.stringify / JSON.parse of a progress record: the stored item is the
\* text of the record, absent (null) until the first write.
Stringify(v) == <<"json", v>>
Parse(s) == s[2]

\* loadProgress() with the saved record left unread: the variant C19 must
\* tell from the code.
loadProgressDefaultOnly(stored) == getDefaultProgress

\* loadProgress(): the saved record, or the default when nothing is saved.
loadProgress(stored) ==
    IF stored # Null THEN Parse(stored) ELSE getDefaultProgress

\* saveProgress(): setItem may throw (quota, storage disabled); the error is
\* caught and the item keeps its old value.
saveProgress(stored, progress, writeOk) ==
    IF writeOk THEN Stringify(progress) ELSE stored

\* validateCurrentStep(): the flag of the step the cursor is on.
validateCurrentStep(step, progress) ==
    CASE step = 1 -> progress.step1
      [] step = 2 -> progress.step2
      [] step = 3 -> progress.step3
      [] OTHER -> TRUE

\* No nextStep call is suspended: the microtask queue is empty, so the event
\* loop may run the next timer, network or event task.
TaskBoundary == nextQ = <<>>

NoEvent == [how |-> "none", page |-> 0]

\* constructor(): the cursor on step 1, the progress read from storage, and
\* nothing in flight (a page load starts from an empty event loop).
Construct(stored) ==
    /\ currentStep = 1
    /\ userProgress = loadProgress(stored)
    /\ storedProgress = stored
    /\ wizPhase = "constructed"
    /\ nextQ = <<>>
    /\ draining = FALSE
    /\ verifyPending = 0
    /\ setupPending = 0
    /\ validatePending = 0
    /\ advanceTimers = 0
    /\ message = "none"
    /\ lastEvent = NoEvent

\* The first load of the page: nothing saved yet.
WizInit ==
    /\ Construct(Null)
    /\ isAuthenticated \in BOOLEAN

\* A load of the page drops every pending call and timer and runs the
\* constructor again over what storage holds.
WizReload ==
    /\ currentStep' = 1
    /\ userProgress' = loadProgress(storedProgress)
    /\ wizPhase' = "constructed"
    /\ nextQ' = <<>>
    /\ draining' = FALSE
    /\ verifyPending' = 0
    /\ setupPending' = 0
    /\ validatePending' = 0
    /\ advanceTimers' = 0
    /\ message' = "none"
    /\ lastEvent' = [how |-> "reload", page |-> 1 - lastEvent.page]
    /\ UNCHANGED storedProgress

\* Reloading the page, the session as it is found again.
Reload ==
    /\ WizReload
    /\ UNCHANGED isAuthenticated

\* initializeApp() up to its await: the authenticated branch waits for
\* checkPasswordlessStatus, the other shows the 'authentication required'
\* modal.
initializeApp ==
    /\ wizPhase = "constructed"
    /\ TaskBoundary
    /\ wizPhase' = IF isAuthenticated THEN "loading" ELSE "authRequired"
    /\ UNCHANGED <<currentStep, userProgress, storedProgress, nextQ, draining,
                   verifyPending, setupPending, validatePending,
                   advanceTimers, message, lastEvent, isAuthenticated>>

\* loadUserProgress with the provider's answer left unread: the variant C20
\* must tell from the code.
LoadedFromStorageOnly(hasPasswordless, step, saved) ==
    [step |-> step, progress |-> saved]

\* What loadUserProgress makes of the status: the completed state when the
\* provider reports passwordless, else the cursor as it is and the saved
\* progress.
Loaded(hasPasswordless, step, saved) ==
    IF hasPasswordless
    THEN [step |-> 4,
          progress |-> [step1 |-> TRUE, step2 |-> TRUE, step3 |-> TRUE,
                        passwordlessEnabled |-> TRUE]]
    ELSE [step |-> step, progress |-> saved]

\* initializeApp's catch: showError(), whose showMessage may throw in its
\* turn, and then the error leaves initializeApp.
InitCatches ==
    /\ message' = "error"
    /\ \E shown \in BOOLEAN :
         lastEvent' = [lastEvent EXCEPT
                          !.how = IF shown THEN "initCaught"
                                           ELSE "initEscaped"]

\* loadUserProgress() after checkPasswordlessStatus has answered (it never
\* throws: a failure answers hasPasswordless = false), then the rest of
\* initializeApp: setupEventListeners(), updateUI() and
\* initializeAnimations(), whose anime() calls may throw.  wizPhase keeps
\* which branch was taken.
loadUserProgress ==
    /\ wizPhase = "loading"
    /\ TaskBoundary
    /\ \E hasPasswordless \in BOOLEAN :
         LET loaded == Loaded(hasPasswordless, currentStep,
                              loadProgress(storedProgress))
         IN /\ currentStep' = loaded.step
            /\ userProgress' = loaded.progress
            /\ wizPhase' = IF hasPasswordless
                           THEN "shortCircuited" ELSE "resumed"
    /\ \E uiThrows \in BOOLEAN :
         IF uiThrows THEN InitCatches ELSE UNCHANGED <<message, lastEvent>>
    /\ UNCHANGED <<storedProgress, nextQ, draining, verifyPending,
                   setupPending, validatePending, advanceTimers,
                   isAuthenticated>>

\* nextStep() up to its await: past the guard, the call is suspended holding
\* the value validateCurrentStep() returned.  At or beyond the last step the
\* call does nothing.
nextStepCall ==
    /\ ~draining
    /\ currentStep < totalSteps
    /\ Len(nextQ) < MaxOverlap
    /\ nextQ' = Append(nextQ, validateCurrentStep(currentStep, userProgress))
    /\ UNCHANGED <<currentStep, userProgress, storedProgress, wizPhase,
                   draining, verifyPending, setupPending, validatePending,
                   advanceTimers, message, lastEvent, isAuthenticated>>

\* nextStep() after its await: return when the step was not valid, else
\* currentStep++, updateUI() and saveProgress().
nextStepResume ==
    /\ nextQ # <<>>
    /\ nextQ' = Tail(nextQ)
    /\ draining' = (Tail(nextQ) # <<>>)
    /\ IF Head(nextQ)
       THEN /\ currentStep' = currentStep + 1
            /\ \E writeOk \in BOOLEAN :
                 storedProgress' =
                     saveProgress(storedProgress, userProgress, writeOk)
       ELSE UNCHANGED <<currentStep, storedProgress>>
    /\ UNCHANGED <<userProgress, wizPhase, verifyPending, setupPending,
                   validatePending, advanceTimers, message, lastEvent,
                   isAuthenticated>>

\* prevStep() taking back the flag of the step it returns to: the variant
\* C31 must tell from the code.
prevStepClearsFlag ==
    /\ ~draining
    /\ currentStep > 1
    /\ currentStep' = currentStep - 1
    /\ userProgress' = [userProgress EXCEPT !.step1 = FALSE]
    /\ UNCHANGED <<storedProgress, wizPhase, nextQ, draining,
                   verifyPending, setupPending, validatePending,
                   advanceTimers, message, lastEvent, isAuthenticated>>

\* prevStep(): synchronous.
prevStep ==
    /\ ~draining
    /\ currentStep > 1
    /\ currentStep' = currentStep - 1
    /\ UNCHANGED <<userProgress, storedProgress, wizPhase, nextQ, draining,
                   verifyPending, setupPending, validatePending,
                   advanceTimers, message, lastEvent, isAuthenticated>>

\* showMessage(): the message is put in messageContainer, then anime() is
\* called, a global the page has to provide: the call may throw.
\* A handler's catch: showError(); when that showMessage throws as well, the
\* error leaves the handler.
HandlerCatches ==
    /\ message' = "error"
    /\ \E shown \in BOOLEAN :
         lastEvent' = [lastEvent EXCEPT
                          !.how = IF shown THEN "caught" ELSE "escaped"]

\* The end of a handler's try block: showSuccess(), and whatever follows it.
HandlerSucceeds ==
    /\ message' = "success"
    /\ lastEvent' = [lastEvent EXCEPT !.how = "completed"]

\* verifyRequirements() up to its await of the 2 s timer: verifyBtn.disabled
\* throws when the page has no such button.
verifyRequirementsCall ==
    /\ ~draining
    /\ verifyPending < MaxInFlight
    /\ \E hasButton \in BOOLEAN :
         IF hasButton
         THEN /\ verifyPending' = verifyPending + 1
              /\ UNCHANGED <<message, lastEvent>>
         ELSE /\ HandlerCatches
              /\ UNCHANGED verifyPending
    /\ UNCHANGED <<currentStep, userProgress, storedProgress, wizPhase, nextQ,
                   draining, setupPending, validatePending, advanceTimers,
                   isAuthenticated>>

\* verifyRequirements() after the timer: displayVerificationResults() (its
\* anime() may throw), step1 = true, saveProgress(), showSuccess().
verifyRequirementsDone ==
    /\ verifyPending > 0
    /\ TaskBoundary
    /\ verifyPending' = verifyPending - 1
    /\ \E displayed \in BOOLEAN :
         IF ~displayed
         THEN /\ HandlerCatches
              /\ UNCHANGED <<userProgress, storedProgress>>
         ELSE /\ userProgress' = [userProgress EXCEPT !.step1 = TRUE]
              /\ \E writeOk \in BOOLEAN :
                   storedProgress' =
                       saveProgress(storedProgress, userProgress', writeOk)
              /\ \E shown \in BOOLEAN :
                   IF shown THEN HandlerSucceeds ELSE HandlerCatches
    /\ UNCHANGED <<currentStep, wizPhase, nextQ, draining, setupPending,
                   validatePending, advanceTimers, isAuthenticated>>

\* setupAuthenticationMethods() up to its await: showInfo(), then the 3 s
\* timer.
setupAuthenticationMethodsCall ==
    /\ ~draining
    /\ setupPending < MaxInFlight
    /\ \E shown \in BOOLEAN :
         IF shown
         THEN /\ setupPending' = setupPending + 1
              /\ message' = "info"
              /\ UNCHANGED lastEvent
         ELSE /\ HandlerCatches
              /\ UNCHANGED setupPending
    /\ UNCHANGED <<currentStep, userProgress, storedProgress, wizPhase, nextQ,
                   draining, verifyPending, validatePending, advanceTimers,
                   isAuthenticated>>

\* setupAuthenticationMethods() after the timer: step2 = true,
\* saveProgress(), showSuccess().
setupAuthenticationMethodsDone ==
    /\ setupPending > 0
    /\ TaskBoundary
    /\ setupPending' = setupPending - 1
    /\ userProgress' = [userProgress EXCEPT !.step2 = TRUE]
    /\ \E writeOk \in BOOLEAN :
         storedProgress' = saveProgress(storedProgress, userProgress', writeOk)
    /\ \E shown \in BOOLEAN :
         IF shown THEN HandlerSucceeds ELSE HandlerCatches
    /\ UNCHANGED <<currentStep, wizPhase, nextQ, draining, verifyPending,
                   validatePending, advanceTimers, isAuthenticated>>

\* validateSetup() up to its await: showInfo(), then the 2 s timer.
validateSetupCall ==
    /\ ~draining
    /\ validatePending < MaxInFlight
    /\ \E shown \in BOOLEAN :
         IF shown
         THEN /\ validatePending' = validatePending + 1
              /\ message' = "info"
              /\ UNCHANGED lastEvent
         ELSE /\ HandlerCatches
              /\ UNCHANGED validatePending
    /\ UNCHANGED <<currentStep, userProgress, storedProgress, wizPhase, nextQ,
                   draining, verifyPending, setupPending, advanceTimers,
                   isAuthenticated>>

\* validateSetup() after the timer: step3 = true, passwordlessEnabled = true,
\* saveProgress(), showSuccess(), and the 1.5 s timer of the advance, which a
\* throwing showSuccess() leaves unset.
validateSetupDone ==
    /\ validatePending > 0
    /\ TaskBoundary
    /\ advanceTimers < MaxInFlight
    /\ validatePending' = validatePending - 1
    /\ userProgress' = [userProgress EXCEPT !.step3 = TRUE,
                                            !.passwordlessEnabled = TRUE]
    /\ \E writeOk \in BOOLEAN :
         storedProgress' = saveProgress(storedProgress, userProgress', writeOk)
    /\ \E shown \in BOOLEAN :
         IF shown
         THEN /\ HandlerSucceeds
              /\ advanceTimers' = advanceTimers + 1
         ELSE /\ HandlerCatches
              /\ UNCHANGED advanceTimers
    /\ UNCHANGED <<currentStep, wizPhase, nextQ, draining, verifyPending,
                   setupPending, isAuthenticated>>

\* The callback with the cursor put on the last step instead of past it: the
\* variant C18 must tell from the code.
autoAdvanceToLastStep ==
    /\ advanceTimers > 0
    /\ TaskBoundary
    /\ advanceTimers' = advanceTimers - 1
    /\ currentStep' = totalSteps
    /\ UNCHANGED <<userProgress, storedProgress, wizPhase, nextQ, draining,
                   verifyPending, setupPending, validatePending, message,
                   lastEvent, isAuthenticated>>

\* The callback of validateSetup's setTimeout: the cursor goes to the
\* completion screen.
autoAdvance ==
    /\ advanceTimers > 0
    /\ TaskBoundary
    /\ advanceTimers' = advanceTimers - 1
    /\ currentStep' = totalSteps + 1
    /\ UNCHANGED <<userProgress, storedProgress, wizPhase, nextQ, draining,
                   verifyPending, setupPending, validatePending, message,
                   lastEvent, isAuthenticated>>

(***************************************************************************)
(* TAPManager (src/tap.js)                                                 *)
(***************************************************************************)
tapVars == <<currentTAP, tapHistory, storedHistory, currentCountdownInterval,
             intervals, nextIntervalId, tapCountdown, genCalls,
             delCalls, callsMade, lastOp, nextTapId, now>>

authVars == <<readCalls, readsMade, lastRead>>

loginVars == <<msalInstance, currentUser, authInit, cachedAccounts,
               redirectResponse, loads, loadedBy>>

vars == <<wizVars, isAuthenticated, tapVars, authVars, loginVars>>

\* Bounds of the TAP model.
MaxCalls == 2         \* generateTAP and deleteTAP calls in one run
MaxElapsed == 61000   \* ms of clock time a run covers

\* Inputs: the clock at page load, the steps the clock is observed to make,
\* the ids the provider gives out, an id no local history holds, and the
\* configurations generateTAP is called with.
StartTime == 65250
Deltas == {30500, 61000}
FirstTapId == 101
ForeignId == 999
GenConfigs ==
    { <<>>,
      [lifetimeInMinutes |-> 1, isUsableOnce |-> TRUE] }

\* What a non-success answer of the provider may carry: a JSON body with
\* error.message, a JSON body without it, or a body that is no JSON (a
\* gateway's HTML page).
ErrorBodies == {"jsonWithMessage", "jsonWithoutMessage", "notJson"}
ProviderMessage == "quota exceeded"
StatusText == "Bad Request"

HistoryLimit == 10
KeepOnEvict == 9
MsPerMinute == 60000
DefaultLifetime == 60

\* An ISO timestamp (toISOString) and its reading (new Date(s).getTime()).
ToISOString(ms) == [sec |-> ms \div 1000, msec |-> ms % 1000]
DateParse(iso) == iso.sec * 1000 + iso.msec

\* Array.prototype.slice(-n): the last n elements.
SliceLast(seq, n) ==
    IF Len(seq) <= n THEN seq ELSE SubSeq(seq, Len(seq) - n + 1, Len(seq))

\* tapConfig: the defaults, then the keys the caller's config holds.
TapConfig(config) ==
    [lifetimeInMinutes |->
         IF "lifetimeInMinutes" \in DOMAIN config
         THEN config.lifetimeInMinutes ELSE DefaultLifetime,
     isUsableOnce |->
         IF "isUsableOnce" \in DOMAIN config
         THEN config.isUsableOnce ELSE FALSE]

\* The provider's answer to a successful POST.
CreatedPass(id, tapConfig, serverTime) ==
    [id |-> id,
     temporaryAccessPass |-> <<"secret", id>>,
     createdDateTime |-> ToISOString(serverTime),
     lifetimeInMinutes |-> tapConfig.lifetimeInMinutes,
     isUsableOnce |-> tapConfig.isUsableOnce]

\* expiresDateTime with the lifetime taken for seconds: the variant C7 must
\* tell from the code.
ExpiresDateTimeInSeconds(result) ==
    ToISOString(DateParse(result.createdDateTime)
                + result.lifetimeInMinutes * 1000)

\* expiresDateTime of tapData.
ExpiresDateTime(result) ==
    ToISOString(DateParse(result.createdDateTime)
                + result.lifetimeInMinutes * MsPerMinute)

\* tapData of generateTAP.
TapData(result, username) ==
    [id |-> result.id,
     temporaryAccessPass |-> result.temporaryAccessPass,
     createdDateTime |-> result.createdDateTime,
     lifetimeInMinutes |-> result.lifetimeInMinutes,
     isUsableOnce |-> result.isUsableOnce,
     expiresDateTime |-> ExpiresDateTime(result),
     createdBy |-> username]

\* addToHistory with the cap tested by > instead of >=: the variant C5 must
\* tell from the code.
addToHistoryLateCap(history, tapData) ==
    Append(IF Len(history) > HistoryLimit
           THEN SliceLast(history, KeepOnEvict) ELSE history,
           tapData)

\* addToHistory keeping the oldest nine (slice(0, 9)) instead of the newest:
\* the variant C6 must tell from the code.
addToHistoryKeepOldest(history, tapData) ==
    Append(IF Len(history) >= HistoryLimit
           THEN SubSeq(history, 1, KeepOnEvict) ELSE history,
           tapData)

\* addToHistory(tapData), without its saveHistory().
addToHistory(history, tapData) ==
    Append(IF Len(history) >= HistoryLimit
           THEN SliceLast(history, KeepOnEvict) ELSE history,
           tapData)

\* saveHistory() with its setItem left out: the variant C14 must tell from
\* the code.
saveHistoryNothingWritten(stored, history, writeOk) == stored

\* saveHistory(): a throwing setItem is caught and the item keeps its value.
saveHistory(stored, history, writeOk) ==
    IF writeOk THEN Stringify(history) ELSE stored

\* An item of local storage that is no JSON text: JSON.parse throws on it.
Corrupt == <<"text", <<>>>>
IsJson(stored) == stored[1] = "json"

\* init(): the saved history, or the constructor's [] when nothing is saved
\* or JSON.parse throws on what is saved.
loadHistory(stored) ==
    IF stored # Null /\ IsJson(stored) THEN Parse(stored) ELSE <<>>

\* The filter with its test inverted (tap.id === tapId): the variant C8 must
\* tell from the code.
RemoveFromHistoryInverted(history, tapId) ==
    SelectSeq(history, LAMBDA tap : tap.id = tapId)

\* deleteTAP's filter.
RemoveFromHistory(history, tapId) ==
    SelectSeq(history, LAMBDA tap : tap.id # tapId)

\* The message of the Error generateTAP throws on a non-success answer.
GraphErrorMessage(body) ==
    CASE body = "jsonWithMessage" -> <<"Error Graph API: ", ProviderMessage>>
      [] body = "jsonWithoutMessage" -> <<"Error Graph API: ", StatusText>>
      [] OTHER -> <<"SyntaxError: ", "Unexpected token">>

\* The page holds the tapCountdown element startTAPCountdown looks up.
HasCountdownElement == TRUE

\* The display: the current pass, the interval the manager references, the
\* live intervals and the countdown text.
Display == [cur |-> currentTAP, cci |-> currentCountdownInterval,
            ivs |-> intervals, shown |-> tapCountdown]

\* hideTAPDisplay without its last line (currentTAP = null): the variant C9
\* must tell from the code.
hideTAPDisplayKeepsCurrent(d) ==
    [d EXCEPT !.ivs = IF d.cci # NoInterval
                      THEN {t \in d.ivs : t.id # d.cci} ELSE d.ivs,
              !.cci = NoInterval]

\* hideTAPDisplay(): clearInterval of the referenced interval, then
\* currentTAP = null.
hideTAPDisplay(d) ==
    [d EXCEPT !.ivs = IF d.cci # NoInterval
                      THEN {t \in d.ivs : t.id # d.cci} ELSE d.ivs,
              !.cci = NoInterval,
              !.cur = Null]

\* updateCountdown() of the interval whose pass expires at expiresTime.  Of
\* the text it writes, the model keeps which of the two it is, not the
\* minutes and seconds.
updateCountdown(d, expiresTime, time) ==
    LET remaining == expiresTime - time IN
    IF remaining <= 0
    THEN hideTAPDisplay([d EXCEPT !.shown = "TAP expirado"])
    ELSE [d EXCEPT !.shown = "Tiempo restante"]

\* startTAPCountdown without its setInterval: the variant C15 must tell from
\* the code.
startTAPCountdownOnce(d, tapData, time, newId) ==
    updateCountdown(d, DateParse(tapData.expiresDateTime), time)

\* startTAPCountdown(tapData): a first updateCountdown(), then setInterval.
\* The interval keeps the expiry its closure holds, and the id of the pass
\* the expiry was read from.
startTAPCountdown(d, tapData, time, newId) ==
    IF ~HasCountdownElement THEN d
    ELSE LET expiresTime == DateParse(tapData.expiresDateTime)
             d1 == updateCountdown(d, expiresTime, time)
         IN [d1 EXCEPT !.ivs = @ \cup {[id |-> newId,
                                        expiresTime |-> expiresTime,
                                        pass |-> tapData.id]},
                       !.cci = newId]

SetDisplay(d) ==
    /\ currentTAP' = d.cur
    /\ currentCountdownInterval' = d.cci
    /\ intervals' = d.ivs
    /\ tapCountdown' = d.shown

NoOp == [op |-> "none", call |-> 0, arg |-> Null, ret |-> "none",
         err |-> Null, val |-> Null]
Ended(op, call, arg, ret, err, val) ==
    [op |-> op, call |-> call, arg |-> arg, ret |-> ret, err |-> err,
     val |-> val]

\* A history an earlier visit of the page left in storage: k passes, made
\* by generateTAP one second apart before this page load.
OldTap(i) ==
    TapData(CreatedPass(i, [lifetimeInMinutes |-> 1,
                            isUsableOnce |-> (i % 2 = 0)], i * 1000),
            "user")
OldHistory(k) == [i \in 1..k |-> OldTap(i)]
SavedLengths == {0, HistoryLimit - 1, HistoryLimit}

\* The constructor ends: it returns, or it throws what getItem throws when
\* the page may not read local storage (init calls getItem outside its try),
\* and then no window.tapManager exists.
ConstructorEnds(readable) ==
    IF readable THEN NoOp
    ELSE Ended("constructor", 0, Null, "throw", <<"SecurityError">>, Null)

TapManagerExists == lastOp.op # "constructor"

\* constructor() and init() over what storage holds; in TapConstruct
\* storage can be read.
TapConstructOver(stored, readable) ==
    /\ currentTAP = Null
    /\ storedHistory = stored
    /\ tapHistory = IF readable THEN loadHistory(stored) ELSE <<>>
    /\ currentCountdownInterval = NoInterval
    /\ intervals = {}
    /\ nextIntervalId = 1
    /\ tapCountdown = Null
    /\ genCalls = {}
    /\ delCalls = {}
    /\ callsMade = 0
    /\ lastOp = ConstructorEnds(readable)
    /\ nextTapId = FirstTapId
    /\ now = StartTime

TapConstruct(stored) == TapConstructOver(stored, TRUE)

TapInit ==
    /\ isAuthenticated \in BOOLEAN
    /\ \/ \E k \in SavedLengths :
            TapConstruct(IF k = 0 THEN Null ELSE Stringify(OldHistory(k)))
       \/ TapConstruct(Corrupt)
       \/ TapConstructOver(Stringify(OldHistory(HistoryLimit)), FALSE)

\* Reloading tap.html: every pending call and interval is dropped, and the
\* constructor runs again.
TapReload ==
    \E readable \in BOOLEAN :
      /\ currentTAP' = Null
      /\ tapHistory' = IF readable THEN loadHistory(storedHistory) ELSE <<>>
      /\ currentCountdownInterval' = NoInterval
      /\ intervals' = {}
      /\ tapCountdown' = Null
      /\ genCalls' = {}
      /\ delCalls' = {}
      /\ lastOp' = ConstructorEnds(readable)
      /\ UNCHANGED <<storedHistory, nextIntervalId, callsMade, nextTapId,
                     now, isAuthenticated>>

\* The clock moves.
Advance ==
    \E d \in Deltas :
      /\ now + d <= StartTime + MaxElapsed
      /\ now' = now + d
      /\ UNCHANGED <<currentTAP, tapHistory, storedHistory,
                     currentCountdownInterval, intervals, nextIntervalId,
                     tapCountdown, genCalls, delCalls, callsMade, lastOp, nextTapId, isAuthenticated>>

\* The authentication check left out: the variant C11 must tell from the
\* code.
AuthCheckSkipped(authenticated) == FALSE

\* The check generateTAP, getTAPMethods and deleteTAP open with:
\* !window.authManager || !window.authManager.isAuthenticated.
NotAuthenticated(authenticated) == ~authenticated

\* generateTAP's catch: log, showTAPError, rethrow.
GenerateThrows(call, err) ==
    /\ lastOp' = Ended("generateTAP", call.id, Null, "throw", err, Null)
    /\ UNCHANGED <<currentTAP, tapHistory, storedHistory,
                   currentCountdownInterval, intervals, nextIntervalId,
                   tapCountdown, nextTapId>>

\* generateTAP(config) up to its first await: the authentication check,
\* tapConfig, then getAccessToken().
generateTAPCall ==
    \E config \in GenConfigs :
      LET call == [id |-> callsMade + 1, pc |-> "token", config |-> config,
                   tapConfig |-> TapConfig(config), response |-> Null]
      IN /\ TapManagerExists
         /\ callsMade < MaxCalls
         /\ callsMade' = callsMade + 1
         /\ IF NotAuthenticated(isAuthenticated)
            THEN /\ GenerateThrows(call, <<"Usuario no autenticado">>)
                 /\ UNCHANGED genCalls
            ELSE /\ genCalls' = genCalls \cup {call}
                 /\ UNCHANGED <<currentTAP, tapHistory, storedHistory,
                                currentCountdownInterval, intervals,
                                nextIntervalId, tapCountdown,
                                lastOp, nextTapId>>
         /\ UNCHANGED <<delCalls, now, isAuthenticated>>

\* getAccessToken() answers: a token, or an error generateTAP rethrows.
generateTAPToken ==
    \E call \in genCalls, ok \in BOOLEAN :
      /\ call.pc = "token"
      /\ IF ok
         THEN /\ genCalls' = (genCalls \ {call})
                               \cup {[call EXCEPT !.pc = "fetch"]}
              /\ UNCHANGED <<currentTAP, tapHistory, storedHistory,
                             currentCountdownInterval, intervals,
                             nextIntervalId, tapCountdown, lastOp,
                             nextTapId>>
         ELSE /\ genCalls' = genCalls \ {call}
              /\ GenerateThrows(call, <<"token error">>)
      /\ UNCHANGED <<delCalls, callsMade, now, isAuthenticated>>

\* fetch(POST) answers: the pass the provider created, a non-success status,
\* or no answer at all (fetch rejects).
generateTAPFetch ==
    \E call \in genCalls :
      /\ call.pc = "fetch"
      /\ \/ /\ genCalls' = (genCalls \ {call}) \cup
                 {[call EXCEPT !.pc = "json",
                               !.response =
                                  [ok |-> TRUE,
                                   body |-> CreatedPass(nextTapId,
                                                call.tapConfig, now)]]}
            /\ nextTapId' = nextTapId + 1
            /\ UNCHANGED lastOp
            /\ UNCHANGED <<currentTAP, tapHistory, storedHistory,
                           currentCountdownInterval, intervals,
                           nextIntervalId, tapCountdown>>
         \/ \E body \in ErrorBodies :
            /\ genCalls' = (genCalls \ {call}) \cup
                 {[call EXCEPT !.pc = "json",
                               !.response = [ok |-> FALSE, body |-> body]]}
            /\ UNCHANGED <<lastOp, nextTapId>>
            /\ UNCHANGED <<currentTAP, tapHistory, storedHistory,
                           currentCountdownInterval, intervals,
                           nextIntervalId, tapCountdown>>
         \/ /\ genCalls' = genCalls \ {call}
            /\ GenerateThrows(call, <<"Failed to fetch">>)
      /\ UNCHANGED <<delCalls, callsMade, now, isAuthenticated>>

\* response.json() answers.  Not ok: the Error built from the body is thrown
\* (or the SyntaxError of a body that is no JSON).  Ok: tapData, currentTAP,
\* addToHistory, displayGeneratedTAP, startTAPCountdown, return tapData.
\* `saved` tells whether saveHistory's setItem went through.
generateTAPJson ==
    \E call \in genCalls :
      /\ call.pc = "json"
      /\ genCalls' = genCalls \ {call}
      /\ IF ~call.response.ok
         THEN GenerateThrows(call, GraphErrorMessage(call.response.body))
         ELSE LET tapData == TapData(call.response.body, "user")
                  d == startTAPCountdown([Display EXCEPT !.cur = tapData],
                                         tapData, now, nextIntervalId)
              IN /\ SetDisplay(d)
                 /\ tapHistory' = addToHistory(tapHistory, tapData)
                 /\ \E writeOk \in BOOLEAN :
                      /\ storedHistory' =
                             saveHistory(storedHistory, tapHistory', writeOk)
                      /\ lastOp' = Ended("generateTAP", call.id, Null,
                                         "return", Null, tapData)
                                       @@ [saved |-> writeOk]
                 /\ nextIntervalId' =
                      IF HasCountdownElement
                      THEN nextIntervalId + 1 ELSE nextIntervalId
                 /\ UNCHANGED nextTapId
      /\ UNCHANGED <<delCalls, callsMade, now, isAuthenticated>>

\* The interval `id` of startTAPCountdown fires: its updateCountdown().
TickOf(id) ==
    \E t \in intervals :
      /\ t.id = id
      /\ SetDisplay(updateCountdown(Display, t.expiresTime, now))
      /\ lastOp' = Ended("updateCountdown", 0, t.id,
                         IF t.expiresTime - now <= 0
                         THEN "expired" ELSE "running", Null, Null)
      /\ UNCHANGED <<tapHistory, storedHistory, nextIntervalId,
                     genCalls, delCalls, callsMade, nextTapId,
                     now, isAuthenticated>>

Tick == \E id \in 1..MaxCalls : TickOf(id)

\* deleteTAP's catch: log, showTAPError, return false.
DeleteFails(call, err) ==
    /\ lastOp' = Ended("deleteTAP", call.id, call.tapId, "false", err, Null)
    /\ UNCHANGED <<tapHistory, storedHistory>>

\* The ids deleteTAP is called with: the oldest and the newest of the list
\* the page shows, and one no local history holds.
DeleteArgs ==
    {tapHistory[i].id : i \in DOMAIN tapHistory \cap {1, Len(tapHistory)}}
        \cup {ForeignId}

\* deleteTAP(tapId) up to its first await.
deleteTAPCall ==
    \E tapId \in DeleteArgs :
      LET call == [id |-> callsMade + 1, pc |-> "token", tapId |-> tapId]
      IN /\ TapManagerExists
         /\ callsMade < MaxCalls
         /\ callsMade' = callsMade + 1
         /\ IF NotAuthenticated(isAuthenticated)
            THEN /\ DeleteFails(call, <<"Usuario no autenticado">>)
                 /\ UNCHANGED delCalls
            ELSE /\ delCalls' = delCalls \cup {call}
                 /\ UNCHANGED <<tapHistory, storedHistory, lastOp>>
         /\ UNCHANGED <<currentTAP, currentCountdownInterval, intervals,
                        nextIntervalId, tapCountdown, genCalls, nextTapId, now,
                        isAuthenticated>>

\* getAccessToken() answers deleteTAP.
deleteTAPToken ==
    \E call \in delCalls, ok \in BOOLEAN :
      /\ call.pc = "token"
      /\ IF ok
         THEN /\ delCalls' = (delCalls \ {call})
                               \cup {[call EXCEPT !.pc = "fetch"]}
              /\ UNCHANGED <<tapHistory, storedHistory, lastOp>>
         ELSE /\ delCalls' = delCalls \ {call}
              /\ DeleteFails(call, <<"token error">>)
      /\ UNCHANGED <<currentTAP, currentCountdownInterval, intervals,
                     nextIntervalId, tapCountdown, genCalls, callsMade,
                     nextTapId, now, isAuthenticated>>

\* fetch(DELETE) answers: 204, a non-success status, or no answer.  On 204:
\* the filter, saveHistory, showTAPSuccess, refreshTAPList, return true.
\* `saved` tells whether saveHistory's setItem went through (it logs 'Error
\* guardando historial TAP' when it did not).
deleteTAPFetch ==
    \E call \in delCalls :
      /\ call.pc = "fetch"
      /\ delCalls' = delCalls \ {call}
      /\ \/ /\ tapHistory' = RemoveFromHistory(tapHistory, call.tapId)
            /\ \E writeOk \in BOOLEAN :
                 /\ storedHistory' =
                        saveHistory(storedHistory, tapHistory', writeOk)
                 /\ lastOp' = Ended("deleteTAP", call.id, call.tapId, "true",
                                    Null, Null) @@ [saved |-> writeOk]
         \/ DeleteFails(call, <<"Error Graph API: ", "404">>)
         \/ DeleteFails(call, <<"Failed to fetch">>)
      /\ UNCHANGED <<currentTAP, currentCountdownInterval, intervals,
                     nextIntervalId, tapCountdown, genCalls, callsMade,
                     nextTapId, now, isAuthenticated>>

(***************************************************************************)
(* The read operations (src/tap.js): AuthManager.getAccessToken,           *)
(* AuthManager.checkPasswordlessStatus and TAPManager.getTAPMethods.       *)
(***************************************************************************)
MaxReads == 2         \* read calls in one run
MaxMethods == 3       \* entries of the list of methods the provider returns

\* The '@odata.type' tags checkPasswordlessStatus looks for, and two it does
\* not.
Fido2 == "#microsoft.graph.fido2AuthenticationMethod"
WindowsHello == "#microsoft.graph.windowsHelloForBusinessAuthenticationMethod"
MicrosoftAuthenticator ==
    "#microsoft.graph.microsoftAuthenticatorAuthenticationMethod"
PasswordMethod == "#microsoft.graph.passwordAuthenticationMethod"
MethodTypes == {Fido2, WindowsHello, MicrosoftAuthenticator, PasswordMethod}

\* The lists of methods the provider may return: entry i carries id i.
MethodLists ==
    UNION {[1..n -> MethodTypes] : n \in 0..MaxMethods}
Methods(types) == [i \in DOMAIN types |-> [id |-> i, odataType |-> types[i]]]

\* What a body may be: JSON with a `value` list, JSON without it, no JSON.
StatusBodies ==
    {[kind |-> "json", json |-> [value |-> Methods(types)]] :
        types \in MethodLists}
    \cup {[kind |-> "json", json |-> [error |-> "none"]],
          [kind |-> "notJson", json |-> Null]}
TapListBodies ==
    {[kind |-> "json", json |-> [value |-> <<>>]],
     [kind |-> "json", json |-> [value |-> <<[id |-> FirstTapId]>>]],
     [kind |-> "notJson", json |-> Null]}

\* The errors of MSAL and of fetch.
InteractionRequired == <<"InteractionRequiredAuthError">>
BrowserAuthError == <<"BrowserAuthError">>
NoSession == <<"No hay sesion activa">>
SilentOutcomes == {<<"token">>, InteractionRequired, BrowserAuthError}
RedirectOutcomes == {<<"token">>, <<"undefined">>, BrowserAuthError}

ReadOps == {"getAccessToken", "checkPasswordlessStatus", "getTAPMethods"}

\* The filter without the Windows Hello tag: the variant C12 must tell from
\* the code.
PasswordlessMethodsWithoutHello(value) ==
    SelectSeq(value, LAMBDA method :
        \/ method.odataType = Fido2
        \/ method.odataType = MicrosoftAuthenticator)

\* passwordlessMethods of checkPasswordlessStatus.
PasswordlessMethods(value) ==
    SelectSeq(value, LAMBDA method :
        \/ method.odataType = Fido2
        \/ method.odataType = WindowsHello
        \/ method.odataType = MicrosoftAuthenticator)

\* What checkPasswordlessStatus returns from its try block.
PasswordlessStatus(value) ==
    [hasPasswordless |-> Len(PasswordlessMethods(value)) > 0,
     methods |-> PasswordlessMethods(value),
     allMethods |-> value]

EmptyStatus == [hasPasswordless |-> FALSE, methods |-> <<>>,
                allMethods |-> <<>>]
EmptyListing == [value |-> <<>>]

\* A catch that rethrows: the variant C13 must tell from the code.
CaughtRethrown(op, error) == [ret |-> "throw", val |-> Null, err |-> error]

\* What the catch of each read operation makes of an error: getAccessToken
\* rethrows it, checkPasswordlessStatus and getTAPMethods return their empty
\* answer.
Caught(op, error) ==
    CASE op = "getAccessToken" ->
             [ret |-> "throw", val |-> Null, err |-> error]
      [] op = "checkPasswordlessStatus" ->
             [ret |-> "return", val |-> EmptyStatus, err |-> error]
      [] OTHER ->
             [ret |-> "return", val |-> EmptyListing, err |-> error]

\* The fallback taken on every error: the variant C16 must tell from the
\* code.
FallsBackOnAnyError(error) == TRUE

\* getAccessToken's test for the interactive fallback.
FallsBackToRedirect(error) == error = InteractionRequired

NoRead == [op |-> "none", call |-> 0, ret |-> "none", val |-> Null,
           err |-> Null, input |-> Null, silent |-> 0, redirect |-> 0,
           silentError |-> Null]

\* A read call ends with `outcome`.
ReadEnds(call, outcome, input) ==
    lastRead' = [op |-> call.op, call |-> call.id, ret |-> outcome.ret,
                 val |-> outcome.val, err |-> outcome.err, input |-> input,
                 silent |-> call.silent, redirect |-> call.redirect,
                 silentError |-> call.silentError]

AuthConstruct ==
    /\ readCalls = {}
    /\ readsMade = 0
    /\ lastRead = NoRead

\* getAccessToken has its token: it returns it, and its caller goes on to
\* fetch.
TokenArrives(call) ==
    IF call.op = "getAccessToken"
    THEN /\ readCalls' = readCalls \ {call}
         /\ ReadEnds(call, [ret |-> "return", val |-> <<"token">>,
                            err |-> Null], Null)
    ELSE /\ readCalls' = (readCalls \ {call})
                            \cup {[call EXCEPT !.pc = "fetch"]}
         /\ UNCHANGED lastRead

\* A read call fails with `error`: the catch of the operation decides.
ReadFails(call, error, input) ==
    /\ readCalls' = readCalls \ {call}
    /\ ReadEnds(call, Caught(call.op, error), input)

\* getAccessToken's catch: acquireTokenRedirect on an interaction-required
\* error, else the error is thrown on.
SilentFails(call, error) ==
    LET failed == [call EXCEPT !.silentError = error] IN
    IF FallsBackToRedirect(error)
    THEN /\ readCalls' = (readCalls \ {call})
                            \cup {[failed EXCEPT !.pc = "redirect",
                                                 !.redirect = @ + 1]}
         /\ UNCHANGED lastRead
    ELSE ReadFails(failed, error, Null)

\* A read operation is called and runs up to its first await: getTAPMethods'
\* authentication check, getAccessToken's test of the session, then
\* acquireTokenSilent.
readCall ==
    \E op \in ReadOps :
      LET call == [id |-> readsMade + 1, op |-> op, pc |-> "silent",
                   silent |-> 0, redirect |-> 0, silentError |-> Null]
      IN /\ readsMade < MaxReads
         /\ readsMade' = readsMade + 1
         /\ IF op = "getTAPMethods" /\ NotAuthenticated(isAuthenticated)
            THEN /\ ReadEnds(call, Caught(op, <<"Usuario no autenticado">>),
                             Null)
                 /\ UNCHANGED readCalls
            ELSE IF ~isAuthenticated
            THEN SilentFails(call, NoSession)
            ELSE /\ readCalls' = readCalls \cup {[call EXCEPT !.silent = 1]}
                 /\ UNCHANGED lastRead
         /\ UNCHANGED isAuthenticated

\* acquireTokenSilent answers.
readSilent ==
    \E call \in readCalls, outcome \in SilentOutcomes :
      /\ call.pc = "silent"
      /\ IF outcome = <<"token">>
         THEN TokenArrives(call)
         ELSE SilentFails(call, outcome)
      /\ UNCHANGED <<readsMade, isAuthenticated>>

\* acquireTokenRedirect answers: a response with a token, no response (the
\* read of response.accessToken throws), or a rejection; the error is thrown
\* on.
readRedirect ==
    \E call \in readCalls, outcome \in RedirectOutcomes :
      /\ call.pc = "redirect"
      /\ CASE outcome = <<"token">> -> TokenArrives(call)
           [] outcome = <<"undefined">> ->
                  ReadFails(call, <<"TypeError">>, Null)
           [] OTHER -> ReadFails(call, outcome, Null)
      /\ UNCHANGED <<readsMade, isAuthenticated>>

\* fetch(GET) answers: a success status, another status, or no answer.
readFetch ==
    \E call \in readCalls :
      /\ call.pc = "fetch"
      /\ \/ /\ readCalls' = (readCalls \ {call})
                               \cup {[call EXCEPT !.pc = "json"]}
            /\ UNCHANGED lastRead
         \/ ReadFails(call, <<"Error Graph API: ", "403">>, Null)
         \/ ReadFails(call, <<"Failed to fetch">>, Null)
      /\ UNCHANGED <<readsMade, isAuthenticated>>

\* response.json() answers: getTAPMethods returns what it read;
\* checkPasswordlessStatus filters methods.value.
readJson ==
    \E call \in readCalls :
      /\ call.pc = "json"
      /\ \E body \in (IF call.op = "checkPasswordlessStatus"
                      THEN StatusBodies ELSE TapListBodies) :
           IF body.kind = "notJson"
           THEN ReadFails(call, <<"SyntaxError: ", "Unexpected token">>,
                          body)
           ELSE IF call.op = "getTAPMethods"
           THEN /\ readCalls' = readCalls \ {call}
                /\ ReadEnds(call, [ret |-> "return", val |-> body.json,
                                   err |-> Null], body)
           ELSE IF "value" \notin DOMAIN body.json
           THEN ReadFails(call, <<"TypeError">>, body)
           ELSE /\ readCalls' = readCalls \ {call}
                /\ ReadEnds(call,
                            [ret |-> "return",
                             val |-> PasswordlessStatus(body.json.value),
                             err |-> Null], body)
      /\ UNCHANGED <<readsMade, isAuthenticated>>

(***************************************************************************)
(* AuthManager's session (src/tap.js): the constructor, init(), login()    *)
(* and logout(), over page loads.  The provider's cache (sessionStorage)   *)
(* outlives a page load; the manager does not.                             *)
(***************************************************************************)
MaxLoads == 3         \* page loads in one run

Client == <<"PublicClientApplication">>
Account == <<"ana@contoso.com">>

\* The constructor leaving the session flag set: the variant C27 must tell
\* from the code.
ConstructedAuthenticated == [currentUser |-> Null, isAuthenticated |-> TRUE]

\* The session fields as the constructor sets them.
ConstructedSession == [currentUser |-> Null, isAuthenticated |-> FALSE]

\* new AuthManager(): the fields, then init() up to its await of
\* initialize(); when `new msal.PublicClientApplication` throws (no msal
\* global on the page) init's catch shows the error.
Started(msalLoaded) ==
    [msalInstance |-> IF msalLoaded THEN Client ELSE Null,
     currentUser |-> ConstructedSession.currentUser,
     isAuthenticated |-> ConstructedSession.isAuthenticated,
     authInit |-> IF msalLoaded THEN "initialize" ELSE "failed"]

\* init()'s test of getAllAccounts().
HasSession(accounts) == Len(accounts) > 0

\* The first load of the page in a tab whose provider cache holds an account
\* or none.
LoginInit ==
    \E msalLoaded \in BOOLEAN, cached \in {<<>>, <<Account>>} :
      /\ msalInstance = Started(msalLoaded).msalInstance
      /\ currentUser = Started(msalLoaded).currentUser
      /\ isAuthenticated = Started(msalLoaded).isAuthenticated
      /\ authInit = Started(msalLoaded).authInit
      /\ cachedAccounts = cached
      /\ redirectResponse = Null
      /\ loads = 1
      /\ loadedBy = [by |-> "open", left |-> FALSE]

\* The session found settled, as the wizard and the TAP manager read it.
LoginSettled ==
    /\ msalInstance = Client
    /\ currentUser = IF isAuthenticated THEN Account ELSE Null
    /\ authInit = "done"
    /\ cachedAccounts = IF isAuthenticated THEN <<Account>> ELSE <<>>
    /\ redirectResponse = Null
    /\ loads = 1
    /\ loadedBy = [by |-> "open", left |-> FALSE]

\* The page is loaded: window.authManager and window.passwordlessManager
\* are constructed anew.
PageLoads(by, response) ==
    /\ loads < MaxLoads
    /\ loads' = loads + 1
    /\ \E msalLoaded \in BOOLEAN :
         /\ msalInstance' = Started(msalLoaded).msalInstance
         /\ currentUser' = Started(msalLoaded).currentUser
         /\ isAuthenticated' = Started(msalLoaded).isAuthenticated
         /\ authInit' = Started(msalLoaded).authInit
    /\ redirectResponse' = response
    /\ loadedBy' = [by |-> by, left |-> isAuthenticated]
    /\ WizReload

\* The user reloads the page.
pageReload ==
    /\ PageLoads("reload", Null)
    /\ UNCHANGED cachedAccounts

\* init() after initialize(): the first cached account, if any, becomes the
\* session; then handleRedirectPromise() is awaited by its then().  A
\* rejected initialize() goes to init's catch.
authInitialized ==
    /\ authInit = "initialize"
    /\ \E ok \in BOOLEAN :
         IF ok
         THEN /\ authInit' = "redirect"
              /\ IF HasSession(cachedAccounts)
                 THEN /\ currentUser' = Head(cachedAccounts)
                      /\ isAuthenticated' = TRUE
                 ELSE UNCHANGED <<currentUser, isAuthenticated>>
         ELSE /\ authInit' = "failed"
              /\ UNCHANGED <<currentUser, isAuthenticated>>
    /\ UNCHANGED <<msalInstance, cachedAccounts, redirectResponse, loads,
                   loadedBy>>

\* handleRedirectPromise() settles: with the response of a login redirect
\* (the provider has cached its account) the session is set and the page is
\* sent to index.html; with none, or rejected, nothing changes.
authRedirectHandled ==
    /\ authInit = "redirect"
    /\ \E resolves \in BOOLEAN :
         IF resolves /\ redirectResponse # Null
         THEN /\ currentUser' = redirectResponse.account
              /\ isAuthenticated' = TRUE
              /\ cachedAccounts' = <<redirectResponse.account>>
              /\ authInit' = "navigating"
         ELSE /\ authInit' = "done"
              /\ UNCHANGED <<currentUser, isAuthenticated, cachedAccounts>>
    /\ UNCHANGED <<msalInstance, redirectResponse, loads, loadedBy>>

\* window.location.href = 'index.html' takes effect.
redirectNavigates ==
    /\ authInit = "navigating"
    /\ PageLoads("redirected", Null)
    /\ UNCHANGED cachedAccounts

\* login(): loginRedirect() leaves the page; the user signs in and the
\* provider loads the redirect URI with its response.  A rejected
\* loginRedirect() is caught and shown, and changes nothing.
login ==
    /\ msalInstance # Null
    /\ PageLoads("login", [account |-> Account])
    /\ UNCHANGED cachedAccounts

\* logout(): logoutRedirect() clears the provider's cache and leaves the
\* page; the provider loads the post-logout URI.  A rejected
\* logoutRedirect() is caught and shown, and changes nothing.
logout ==
    /\ msalInstance # Null
    /\ cachedAccounts' = <<>>
    /\ PageLoads("logout", Null)

(***************************************************************************)
(* The specifications: the wizard page (index.html) and the TAP page       *)
(* (tap.html) are separate documents, each with its own event loop.        *)
(***************************************************************************)
Init ==
    /\ WizInit
    /\ TapConstruct(Null)
    /\ AuthConstruct
    /\ LoginSettled

Next ==
    \/ initializeApp /\ UNCHANGED <<tapVars, authVars, loginVars>>
    \/ loadUserProgress /\ UNCHANGED <<tapVars, authVars, loginVars>>
    \/ nextStepCall /\ UNCHANGED <<tapVars, authVars, loginVars>>
    \/ nextStepResume /\ UNCHANGED <<tapVars, authVars, loginVars>>
    \/ prevStep /\ UNCHANGED <<tapVars, authVars, loginVars>>
    \/ verifyRequirementsCall /\ UNCHANGED <<tapVars, authVars, loginVars>>
    \/ verifyRequirementsDone /\ UNCHANGED <<tapVars, authVars, loginVars>>
    \/ setupAuthenticationMethodsCall /\ UNCHANGED <<tapVars, authVars, loginVars>>
    \/ setupAuthenticationMethodsDone /\ UNCHANGED <<tapVars, authVars, loginVars>>
    \/ validateSetupCall /\ UNCHANGED <<tapVars, authVars, loginVars>>
    \/ validateSetupDone /\ UNCHANGED <<tapVars, authVars, loginVars>>
    \/ autoAdvance /\ UNCHANGED <<tapVars, authVars, loginVars>>
    \/ Reload /\ UNCHANGED <<tapVars, authVars, loginVars>>

Spec == Init /\ [][Next]_vars

TapSpecInit ==
    /\ TapInit
    /\ Construct(Null)
    /\ AuthConstruct
    /\ LoginSettled

TapSpecNext ==
    \/ generateTAPCall /\ UNCHANGED <<wizVars, authVars, loginVars>>
    \/ generateTAPToken /\ UNCHANGED <<wizVars, authVars, loginVars>>
    \/ generateTAPFetch /\ UNCHANGED <<wizVars, authVars, loginVars>>
    \/ generateTAPJson /\ UNCHANGED <<wizVars, authVars, loginVars>>
    \/ Tick /\ UNCHANGED <<wizVars, authVars, loginVars>>
    \/ deleteTAPCall /\ UNCHANGED <<wizVars, authVars, loginVars>>
    \/ deleteTAPToken /\ UNCHANGED <<wizVars, authVars, loginVars>>
    \/ deleteTAPFetch /\ UNCHANGED <<wizVars, authVars, loginVars>>
    \/ Advance /\ UNCHANGED <<wizVars, authVars, loginVars>>
    \/ TapReload /\ UNCHANGED <<wizVars, authVars, loginVars>>

TapSpec == TapSpecInit /\ [][TapSpecNext]_vars

\* The read operations, called on either page.
AuthSpecInit ==
    /\ isAuthenticated \in BOOLEAN
    /\ AuthConstruct
    /\ Construct(Null)
    /\ TapConstruct(Null)
    /\ LoginSettled

AuthSpecNext ==
    \/ readCall /\ UNCHANGED <<wizVars, tapVars, loginVars>>
    \/ readSilent /\ UNCHANGED <<wizVars, tapVars, loginVars>>
    \/ readRedirect /\ UNCHANGED <<wizVars, tapVars, loginVars>>
    \/ readFetch /\ UNCHANGED <<wizVars, tapVars, loginVars>>
    \/ readJson /\ UNCHANGED <<wizVars, tapVars, loginVars>>

AuthSpec == AuthSpecInit /\ [][AuthSpecNext]_vars

\* Timers fire: every live interval gets its turn.
TapFairSpec ==
    /\ TapSpec
    /\ \A id \in 1..MaxCalls : WF_vars(TickOf(id) /\ UNCHANGED <<wizVars, authVars, loginVars>>)

\* One load of the wizard page, from its construction on.
SessionNext ==
    \/ initializeApp /\ UNCHANGED <<tapVars, authVars, loginVars>>
    \/ loadUserProgress /\ UNCHANGED <<tapVars, authVars, loginVars>>
    \/ nextStepCall /\ UNCHANGED <<tapVars, authVars, loginVars>>
    \/ nextStepResume /\ UNCHANGED <<tapVars, authVars, loginVars>>
    \/ prevStep /\ UNCHANGED <<tapVars, authVars, loginVars>>
    \/ verifyRequirementsCall /\ UNCHANGED <<tapVars, authVars, loginVars>>
    \/ verifyRequirementsDone /\ UNCHANGED <<tapVars, authVars, loginVars>>
    \/ setupAuthenticationMethodsCall /\ UNCHANGED <<tapVars, authVars, loginVars>>
    \/ setupAuthenticationMethodsDone /\ UNCHANGED <<tapVars, authVars, loginVars>>
    \/ validateSetupCall /\ UNCHANGED <<tapVars, authVars, loginVars>>
    \/ validateSetupDone /\ UNCHANGED <<tapVars, authVars, loginVars>>
    \/ autoAdvance /\ UNCHANGED <<tapVars, authVars, loginVars>>

\* While the page stays loaded the event loop runs: the microtask queue is
\* drained, and a timer that is due gets a task boundary of its own, however
\* often other tasks come first.
SessionFairSpec ==
    /\ Init
    /\ [][SessionNext]_vars
    /\ WF_vars(nextStepResume /\ UNCHANGED <<tapVars, authVars, loginVars>>)
    /\ SF_vars(autoAdvance /\ UNCHANGED <<tapVars, authVars, loginVars>>)

\* The session over page loads, and the wizard's initialization
\* (DOMContentLoaded) racing AuthManager.init().
LoginSpecInit ==
    /\ LoginInit
    /\ Construct(Null)
    /\ TapConstruct(Null)
    /\ AuthConstruct

LoginSpecNext ==
    \/ authInitialized /\ UNCHANGED <<wizVars, tapVars, authVars>>
    \/ authRedirectHandled /\ UNCHANGED <<wizVars, tapVars, authVars>>
    \/ redirectNavigates /\ UNCHANGED <<tapVars, authVars>>
    \/ login /\ UNCHANGED <<tapVars, authVars>>
    \/ logout /\ UNCHANGED <<tapVars, authVars>>
    \/ pageReload /\ UNCHANGED <<tapVars, authVars>>
    \/ initializeApp /\ UNCHANGED <<tapVars, authVars, loginVars>>
    \/ loadUserProgress /\ UNCHANGED <<tapVars, authVars, loginVars>>

LoginSpec == LoginSpecInit /\ [][LoginSpecNext]_vars

(***************************************************************************)
(* The claims.                                                             *)
(***************************************************************************)

\* C1: in every reachable state of the wizard, passwordlessEnabled true
\* implies step1, step2 and step3 true.
C1_PasswordlessImpliesAllSteps ==
    userProgress.passwordlessEnabled =>
        (userProgress.step1 /\ userProgress.step2 /\ userProgress.step3)

\* The step of a nextStep() call resuming after its await.
NextStepResumes ==
    /\ nextQ # <<>>
    /\ nextQ' = Tail(nextQ)
    /\ UNCHANGED <<userProgress, verifyPending, setupPending,
                   validatePending, advanceTimers, wizPhase>>

\* C2: a resuming nextStep() moves the cursor from s to s+1 only if the flag
\* of step s is true at that moment; otherwise it leaves the cursor where it
\* is and shows no error.
C2_NextStepOnlyPastCompletedStep ==
    [][NextStepResumes =>
          IF validateCurrentStep(currentStep, userProgress)
          THEN currentStep' \in {currentStep, currentStep + 1}
          ELSE currentStep' = currentStep /\ message' # "error"]_vars

\* C3: in every reachable state the cursor lies in 1..totalSteps+1.
C3_CursorInRange == currentStep \in 1..(totalSteps + 1)

\* C4: in every reachable state step2 implies step1 and step3 implies step2.
C4_StepsCompleteInOrder ==
    /\ userProgress.step2 => userProgress.step1
    /\ userProgress.step3 => userProgress.step2

\* C5: the history, in memory and as persisted, never holds more than 10
\* entries.
C5_HistoryAtMostTen ==
    /\ Len(tapHistory) <= 10
    /\ Len(loadHistory(storedHistory)) <= 10

\* C5's case: a pass was generated onto a full history, and the history
\* still holds 10.
C5_Witness ==
    /\ lastOp.op = "generateTAP"
    /\ lastOp.ret = "return"
    /\ Len(tapHistory) = 10
    /\ tapHistory[10] = lastOp.val
    /\ tapHistory[1].id = 2

\* The step of a generateTAP() call returning its pass.
GenerateReturns ==
    /\ lastOp' # lastOp
    /\ lastOp'.op = "generateTAP"
    /\ lastOp'.ret = "return"

\* C6: adding a pass to a history of 10 gives the old entries 2..10 in their
\* order followed by the pass; adding it to a shorter history gives the old
\* history followed by the pass.
C6_EvictionOldestFirst ==
    [][GenerateReturns =>
          tapHistory' =
              IF Len(tapHistory) = 10
              THEN [i \in 1..10 |-> IF i < 10 THEN tapHistory[i + 1]
                                    ELSE lastOp'.val]
              ELSE tapHistory \o <<lastOp'.val>>]_vars

\* C6's case: the oldest of ten saved passes is gone, the other nine have
\* moved up and the new pass is last.
C6_Witness ==
    /\ Len(tapHistory) = 10
    /\ \A i \in 1..9 : tapHistory[i] = OldTap(i + 1)
    /\ tapHistory[10].id = FirstTapId

\* The passes the manager holds: the history's, the current one and the one
\* generateTAP returned last.
HeldPasses ==
    {tapHistory[i] : i \in DOMAIN tapHistory}
        \cup (IF currentTAP # Null THEN {currentTAP} ELSE {})
        \cup (IF lastOp.op = "generateTAP" /\ lastOp.ret = "return"
              THEN {lastOp.val} ELSE {})

\* C7: the recorded expiry of every pass is its recorded creation time plus
\* lifetimeInMinutes * 60 seconds, to the millisecond.
C7_ExpiryIsCreationPlusLifetime ==
    \A tap \in HeldPasses :
        /\ tap.expiresDateTime.sec =
               tap.createdDateTime.sec + tap.lifetimeInMinutes * 60
        /\ tap.expiresDateTime.msec = tap.createdDateTime.msec

\* C7's case: generateTAP has returned a pass of the default lifetime,
\* created off the full second.
C7_Witness ==
    /\ lastOp.op = "generateTAP"
    /\ lastOp.ret = "return"
    /\ lastOp.val.lifetimeInMinutes = DefaultLifetime
    /\ lastOp.val.createdDateTime.msec # 0
    /\ currentTAP = lastOp.val

\* The step of a deleteTAP(id) call ending, for an id the history does not
\* hold.
DeleteOfAbsentIdEnds ==
    /\ lastOp' # lastOp
    /\ lastOp'.op = "deleteTAP"
    /\ \A i \in DOMAIN tapHistory : tapHistory[i].id # lastOp'.arg

\* C8 as stated: deleteTAP of an id the history does not hold removes no
\* entry and returns false, whatever the remote call answers.
C8_DeleteAbsentReturnsFalse ==
    [][DeleteOfAbsentIdEnds =>
          (tapHistory' = tapHistory /\ lastOp'.ret = "false")]_vars

\* C8 amended: deleteTAP of an id the history does not hold removes no
\* entry, whatever the remote call answers; it returns false when the
\* authentication check, the token or the remote delete fails, and true when
\* the remote delete succeeds.
C8_DeleteAbsentRemovesNothing ==
    [][DeleteOfAbsentIdEnds =>
          /\ tapHistory' = tapHistory
          /\ lastOp'.ret = (IF lastOp'.err # Null THEN "false" ELSE "true")]_vars

\* C8's case: deleteTAP of an id no entry holds has ended, over a history
\* that holds entries, once with the remote delete succeeding.
C8_Witness ==
    /\ lastOp.op = "deleteTAP"
    /\ lastOp.arg = ForeignId
    /\ lastOp.ret = "true"
    /\ Len(tapHistory) = 10

\* The step of an interval's updateCountdown().
TickStep ==
    /\ lastOp'.op = "updateCountdown"
    /\ UNCHANGED <<now, genCalls, delCalls, callsMade, nextTapId,
                   nextIntervalId>>

GenerateFailsOnStatus(body) ==
    /\ lastOp' # lastOp
    /\ lastOp'.op = "generateTAP"
    /\ lastOp'.ret = "throw"
    /\ \E call \in genCalls :
         /\ call.id = lastOp'.call
         /\ call.pc = "json"
         /\ ~call.response.ok
         /\ call.response.body = body

\* C10: on a non-success status generateTAP throws an error carrying the
\* provider's message (the body's error.message, else the status text), and
\* currentTAP, the history, the persisted history and the intervals stay as
\* they were.
C10_FailureCarriesMessageChangesNothing ==
    [][\A body \in ErrorBodies :
          GenerateFailsOnStatus(body) =>
              /\ lastOp'.err =
                     <<"Error Graph API: ",
                       IF body = "jsonWithMessage"
                       THEN ProviderMessage ELSE StatusText>>
              /\ UNCHANGED <<currentTAP, tapHistory, storedHistory,
                             intervals, currentCountdownInterval>>]_vars

\* The step of a generateTAP() or deleteTAP() call made while no user is
\* authenticated.
UnauthenticatedCall ==
    /\ ~isAuthenticated
    /\ callsMade' = callsMade + 1

\* C11: generateTAP and deleteTAP called while not authenticated end at once,
\* generateTAP throwing and deleteTAP returning false, with 'Usuario no
\* autenticado'; no call is left waiting for a token or for the provider, the
\* provider issues nothing, and currentTAP, the history (in memory and
\* persisted) and the intervals stay as they were.
C11_UnauthenticatedCallsFailUntouched ==
    [][UnauthenticatedCall =>
          /\ lastOp'.call = callsMade'
          /\ lastOp'.op \in {"generateTAP", "deleteTAP"}
          /\ lastOp'.ret = (IF lastOp'.op = "generateTAP"
                            THEN "throw" ELSE "false")
          /\ lastOp'.err = <<"Usuario no autenticado">>
          /\ genCalls' = {}
          /\ delCalls' = {}
          /\ UNCHANGED <<currentTAP, tapHistory, storedHistory, intervals,
                         currentCountdownInterval, nextTapId>>]_vars

\* C11's case: with no user authenticated and a saved history of ten, a
\* deleteTAP() has returned false and then a generateTAP() has thrown.
C11_Witness ==
    /\ ~isAuthenticated
    /\ lastOp.op = "generateTAP"
    /\ lastOp.ret = "throw"
    /\ lastOp.call = 2
    /\ Len(tapHistory) = 10

\* The step of a deleteTAP(id) call ending.
DeleteEnds ==
    /\ lastOp' # lastOp
    /\ lastOp'.op = "deleteTAP"

\* The history without the entries of the given id, the others in their
\* order.
WithoutId(history, tapId) ==
    SelectSeq(history, LAMBDA tap : tap.id # tapId)

\* C14 as stated: deleteTAP ends by returning; on the remote delete's
\* success it returns true, the history is the old one without the entries
\* of that id and the persisted history is that result; on any failure it
\* returns false with an error message and the history, in memory and
\* persisted, is as it was.
C14_DeleteRemovesAndPersists ==
    [][DeleteEnds =>
          IF lastOp'.err = Null
          THEN /\ lastOp'.ret = "true"
               /\ tapHistory' = WithoutId(tapHistory, lastOp'.arg)
               /\ storedHistory' = Stringify(tapHistory')
          ELSE /\ lastOp'.ret = "false"
               /\ UNCHANGED <<tapHistory, storedHistory>>]_vars

\* C14 amended: as above, but the persisted history is the result only when
\* local storage took the write; when it did not, the persisted history is as
\* it was and deleteTAP still returns true.
C14_DeleteRemovesAndPersistsIfWritable ==
    [][DeleteEnds =>
          IF lastOp'.err = Null
          THEN /\ lastOp'.ret = "true"
               /\ tapHistory' = WithoutId(tapHistory, lastOp'.arg)
               /\ storedHistory' = IF lastOp'.saved
                                    THEN Stringify(tapHistory')
                                    ELSE storedHistory
          ELSE /\ lastOp'.ret = "false"
               /\ UNCHANGED <<tapHistory, storedHistory>>]_vars

\* C14's case: the oldest of ten saved passes was deleted, remotely and from
\* the history, and the nine left were persisted.
C14_Witness ==
    /\ lastOp.op = "deleteTAP"
    /\ lastOp.ret = "true"
    /\ lastOp.arg = 1
    /\ lastOp.saved
    /\ tapHistory = [i \in 1..9 |-> OldTap(i + 1)]
    /\ storedHistory = Stringify(tapHistory)

\* A countdown interval for the pass is live and is the one the manager
\* references.
TickerRunsFor(tap, ivs, cci) ==
    \E t \in ivs :
        /\ t.id = cci
        /\ t.expiresTime = DateParse(tap.expiresDateTime)

AllowListed == {Fido2, WindowsHello, MicrosoftAuthenticator}

\* `sub` is the sub-sequence of `list` made of its allow-listed entries, in
\* their order.
IsAllowListedSubsequence(sub, list) ==
    \E f \in [1..Len(sub) -> 1..Len(list)] :
        /\ \A j, k \in 1..Len(sub) : j < k => f[j] < f[k]
        /\ \A k \in 1..Len(sub) : sub[k] = list[f[k]]
        /\ {f[k] : k \in 1..Len(sub)} =
               {i \in 1..Len(list) : list[i].odataType \in AllowListed}

\* checkPasswordlessStatus has returned from its try block.
StatusReturned ==
    /\ lastRead.op = "checkPasswordlessStatus"
    /\ lastRead.ret = "return"
    /\ lastRead.err = Null

\* C12: for the list of methods the provider returned, methods is the
\* sub-sequence of its allow-listed entries, allMethods is the list, and
\* hasPasswordless tells whether methods is non-empty.
C12_StatusFiltersAllowListed ==
    StatusReturned =>
        LET list == lastRead.input.json.value
            status == lastRead.val
        IN /\ IsAllowListedSubsequence(status.methods, list)
           /\ status.allMethods = list
           /\ status.hasPasswordless <=> (Len(status.methods) > 0)

\* C12's case: of three methods returned, a Windows Hello entry, a password
\* entry and a FIDO2 entry, the first and the third are reported.
C12_Witness ==
    /\ StatusReturned
    /\ Len(lastRead.input.json.value) = 3
    /\ lastRead.input.json.value[1].odataType = WindowsHello
    /\ lastRead.input.json.value[2].odataType = PasswordMethod
    /\ lastRead.input.json.value[3].odataType = Fido2
    /\ lastRead.val.hasPasswordless
    /\ Len(lastRead.val.methods) = 2
    /\ lastRead.val.methods[2].id = 3

\* The step of checkPasswordlessStatus or getTAPMethods ending.
StatusOrListingEnds ==
    /\ lastRead' # lastRead
    /\ lastRead'.op \in {"checkPasswordlessStatus", "getTAPMethods"}

\* C13: checkPasswordlessStatus and getTAPMethods end by returning; after a
\* failure of the token acquisition, of the request or of the body's read
\* they return their empty answer; and they leave the session, the wizard
\* and the TAP manager as they were.
C13_ReadsFailOpen ==
    [][StatusOrListingEnds =>
          /\ lastRead'.ret = "return"
          /\ lastRead'.err # Null =>
                 lastRead'.val =
                     IF lastRead'.op = "checkPasswordlessStatus"
                     THEN [hasPasswordless |-> FALSE, methods |-> <<>>,
                           allMethods |-> <<>>]
                     ELSE [value |-> <<>>]
          /\ UNCHANGED <<isAuthenticated, wizVars, tapVars>>]_vars

\* C13's case: a getTAPMethods and then a checkPasswordlessStatus whose
\* request the provider refused, answered with the empty status.
C13_Witness ==
    /\ lastRead.op = "checkPasswordlessStatus"
    /\ lastRead.call = 2
    /\ lastRead.err = <<"Error Graph API: ", "403">>
    /\ lastRead.ret = "return"
    /\ ~lastRead.val.hasPasswordless

\* The getAccessToken calls, pending and last ended, direct or made by
\* checkPasswordlessStatus and getTAPMethods.
TokenCalls ==
    readCalls \cup (IF lastRead.op # "none" THEN {lastRead} ELSE {})

\* C16: a getAccessToken call makes at most one silent and at most one
\* redirect attempt, the redirect only after the silent attempt failed with
\* InteractionRequiredAuthError; a missing session, another silent failure or
\* a failed redirect is what the call throws.
C16_AtMostOneFallback ==
    /\ \A r \in TokenCalls :
         /\ r.silent <= 1
         /\ r.redirect <= 1
         /\ r.redirect = 1 =>
                (r.silent = 1 /\ r.silentError = InteractionRequired)
    /\ (lastRead.op = "getAccessToken" /\ lastRead.ret = "throw") =>
         CASE lastRead.silent = 0 -> lastRead.err = NoSession
           [] lastRead.redirect = 0 ->
                  /\ lastRead.err = lastRead.silentError
                  /\ lastRead.err # InteractionRequired
           [] OTHER -> lastRead.err \in {BrowserAuthError, <<"TypeError">>}

\* C16's case: the silent attempt asked for interaction, the redirect
\* attempt failed, and getAccessToken threw that failure.
C16_Witness ==
    /\ lastRead.op = "getAccessToken"
    /\ lastRead.silent = 1
    /\ lastRead.redirect = 1
    /\ lastRead.ret = "throw"
    /\ lastRead.err = BrowserAuthError


\* A step of the same page load.
SamePage == lastEvent'.page = lastEvent.page

\* A step in which verifyRequirements, setupAuthenticationMethods or
\* validateSetup ends: after its timer, or at once when it throws before it.
HandlerEnds ==
    /\ SamePage
    /\ lastEvent'.how \in {"completed", "caught", "escaped"}
    /\ \/ verifyPending' < verifyPending
       \/ setupPending' < setupPending
       \/ validatePending' < validatePending
       \/ /\ UNCHANGED <<verifyPending, setupPending, validatePending>>
          /\ <<lastEvent, message>>' # <<lastEvent, message>>

\* The flags of the record local storage holds after the step.
PersistedFlags ==
    IF storedProgress' = Null
    THEN [step1 |-> FALSE, step2 |-> FALSE, step3 |-> FALSE,
          passwordlessEnabled |-> FALSE]
    ELSE Parse(storedProgress')

\* C17: a step handler that completes without an exception has set its flag
\* in memory and in the persisted record; when an exception is raised
\* anywhere in the handler it does not leave the handler, an error message is
\* shown, and the flag and the persisted record keep the values they had.
C17_HandlerSetsFlagOrChangesNothing ==
    [][HandlerEnds =>
         IF lastEvent'.how = "completed"
         THEN /\ verifyPending' < verifyPending =>
                    userProgress'.step1 /\ PersistedFlags.step1
              /\ setupPending' < setupPending =>
                    userProgress'.step2 /\ PersistedFlags.step2
              /\ validatePending' < validatePending =>
                    userProgress'.step3 /\ PersistedFlags.step3
         ELSE /\ lastEvent'.how = "caught"
              /\ message' = "error"
              /\ UNCHANGED <<userProgress, storedProgress>>]_vars

\* A step in which validateSetup ends without an exception.
ValidateSetupSucceeds ==
    /\ SamePage
    /\ validatePending' < validatePending
    /\ lastEvent'.how = "completed"

\* C18: every successful validateSetup sets passwordlessEnabled and arms the
\* timer of the advance, and an armed timer is eventually followed by the
\* cursor on totalSteps + 1, whatever navigation happens in between.
C18_ValidateSetupLeadsToCompletion ==
    /\ [][ValidateSetupSucceeds =>
            /\ userProgress'.passwordlessEnabled
            /\ advanceTimers' = advanceTimers + 1]_vars
    /\ (advanceTimers > 0) ~> (currentStep = totalSteps + 1)

\* The advance has taken the cursor to the completion screen from a wizard
\* whose earlier steps were never completed.
C18_Witness ==
    /\ currentStep = totalSteps + 1
    /\ advanceTimers = 0
    /\ lastEvent.how = "completed"
    /\ userProgress.passwordlessEnabled
    /\ ~userProgress.step1
    /\ wizPhase = "resumed"

\* A step in which the page is loaded again.
ReloadStep == lastEvent'.page # lastEvent.page

\* A step in which the initialization that follows a load ends with the
\* provider not reporting passwordless.
ResumeStep == wizPhase = "loading" /\ wizPhase' = "resumed"

ShortCircuitStep == wizPhase = "loading" /\ wizPhase' = "shortCircuited"

\* C20: the initialization of an authenticated wizard whose provider reports
\* passwordless ends with the cursor on totalSteps + 1 and every flag true,
\* whatever local storage held.
C20_ProviderStatusShortCircuits ==
    [][ShortCircuitStep =>
         /\ isAuthenticated
         /\ currentStep' = totalSteps + 1
         /\ userProgress'.step1
         /\ userProgress'.step2
         /\ userProgress'.step3
         /\ userProgress'.passwordlessEnabled]_vars

\* The short circuit over a saved record that has step 1 only.
C20_Witness ==
    /\ wizPhase = "shortCircuited"
    /\ isAuthenticated
    /\ currentStep = totalSteps + 1
    /\ userProgress.passwordlessEnabled
    /\ storedProgress # Null
    /\ Parse(storedProgress).step1
    /\ ~Parse(storedProgress).step3
    /\ lastEvent.how = "reload"


\* C22: at most one countdown ticker is active at any time, and it is the
\* one the manager references: a new pass cancels the ticker of the earlier
\* one, and hiding the display cancels the running one.
C22_AtMostOneTicker ==
    /\ Cardinality(intervals) <= 1
    /\ \A t \in intervals : t.id = currentCountdownInterval

\* The interval whose updateCountdown() the step runs.
Ticking == {t \in intervals : t.id = lastOp'.arg}

\* C23: a ticker that finds the remaining time of its pass at zero or below
\* cancels itself, so that it never fires again, whatever generateTAP calls
\* were made while earlier passes were unexpired.
C23_ExpiredTickerStops ==
    [][TickStep /\ lastOp'.ret = "expired" =>
         \A t \in intervals' : t.id # lastOp'.arg]_vars

\* C29: a tick of the interval of pass A, while the current TAP is another
\* pass B that has not expired, leaves the current TAP, the display and the
\* referenced ticker as they are.
C29_TickOfOtherPassKeepsCurrent ==
    [][/\ TickStep
       /\ currentTAP # Null
       /\ DateParse(currentTAP.expiresDateTime) > now
       /\ \E t \in Ticking : t.pass # currentTAP.id
       => /\ currentTAP' = currentTAP
          /\ currentCountdownInterval' = currentCountdownInterval
          /\ \E t \in intervals' : t.id = currentCountdownInterval]_vars


\* A step of a deleteTAP() call: its entry, its token, or its end.
DeleteStep ==
    \/ DeleteEnds
    \/ /\ delCalls' # delCalls
       /\ Cardinality(delCalls') >= Cardinality(delCalls)

\* C30: no step of deleteTAP changes the current TAP, the display or the
\* tickers; after a successful deleteTAP of the id of the current pass that
\* pass is still the current TAP and is no longer in the history.
C30_DeleteKeepsCurrent ==
    [][DeleteStep =>
         /\ UNCHANGED <<currentTAP, currentCountdownInterval, intervals,
                        tapCountdown>>
         /\ DeleteEnds /\ lastOp'.ret = "true" /\ currentTAP # Null
            /\ lastOp'.arg = currentTAP.id =>
                \A i \in DOMAIN tapHistory' :
                    tapHistory'[i].id # currentTAP.id]_vars

\* The pass just generated was deleted: it is current, its ticker runs, and
\* the history does not hold it.
C30_Witness ==
    /\ lastOp.op = "deleteTAP"
    /\ lastOp.ret = "true"
    /\ currentTAP # Null
    /\ lastOp.arg = currentTAP.id
    /\ \A i \in DOMAIN tapHistory : tapHistory[i].id # currentTAP.id
    /\ \E t \in intervals :
         t.id = currentCountdownInterval /\ t.pass = currentTAP.id

\* A step that completes a mutation of the history: generateTAP returns, or
\* deleteTAP returns true.
HistoryMutates ==
    /\ lastOp' # lastOp
    /\ \/ lastOp'.op = "generateTAP" /\ lastOp'.ret = "return"
       \/ lastOp'.op = "deleteTAP" /\ lastOp'.ret = "true"

\* C24: after every completed mutation of the history whose storage write
\* went through, the persisted history is the serialized in-memory history.
C24_PersistedHistoryFollowsMemory ==
    [][HistoryMutates /\ lastOp'.saved =>
         storedHistory' = Stringify(tapHistory')]_vars

\* A pass was added to a saved history and an older one then removed, both
\* written through.
C24_Witness ==
    /\ lastOp.op = "deleteTAP"
    /\ lastOp.ret = "true"
    /\ lastOp.saved
    /\ lastOp.arg < FirstTapId
    /\ Len(tapHistory) >= KeepOnEvict
    /\ tapHistory[Len(tapHistory)].id >= FirstTapId
    /\ storedHistory = Stringify(tapHistory)


\* C25: a failure of local storage is never fatal.  The TAP manager is
\* constructed whatever the read of its history does, with the empty history
\* when the read fails; a mutation of the history whose write fails still
\* completes, the history in memory mutated and the persisted one as it was.
C25_StorageFailureNeverFatal ==
    /\ [](/\ TapManagerExists
          /\ lastOp.op = "none" /\ storedHistory # Null
             /\ ~IsJson(storedHistory) => tapHistory = <<>>)
    /\ [][HistoryMutates /\ ~lastOp'.saved =>
            /\ storedHistory' = storedHistory
            /\ tapHistory' =
                 IF lastOp'.op = "deleteTAP"
                 THEN WithoutId(tapHistory, lastOp'.arg)
                 ELSE addToHistory(tapHistory, lastOp'.val)]_vars


\* A step in which initializeApp ends on an exception.
InitThrows ==
    /\ wizPhase = "loading"
    /\ wizPhase' # "loading"
    /\ lastEvent'.how \in {"initCaught", "initEscaped"}

\* C21: an exception raised during the initialization of the wizard ends in
\* the 'authentication required' presentation and does not leave
\* initializeApp.
C21_InitFailureShowsAuthenticationRequired ==
    [][InitThrows =>
         /\ wizPhase' = "authRequired"
         /\ lastEvent'.how = "initCaught"]_vars

\* The actions of the wizard in flight: suspended nextStep calls, step
\* handlers waiting for their timer.
WizardInFlight ==
    Len(nextQ) + verifyPending + setupPending + validatePending

\* C26: a component has at most one action in flight; an action invoked
\* while another is suspended at its await is rejected at entry.
C26_AtMostOneActionInFlight ==
    /\ WizardInFlight <= 1
    /\ Cardinality(genCalls \cup delCalls) <= 1


\* A step in which the session becomes Authenticated.
BecomesAuthenticated == ~isAuthenticated /\ isAuthenticated'

\* C27: the session becomes Authenticated only in init(), by an account the
\* provider had cached or by the account the login redirect returns; a
\* successful logout() leaves it Unauthenticated, with no current account,
\* and it stays so on the page logout() ends on.
C27_SessionFollowsStateMachine ==
    [][/\ BecomesAuthenticated =>
            \/ /\ authInit = "initialize"
               /\ cachedAccounts # <<>>
               /\ currentUser' = Head(cachedAccounts)
            \/ /\ authInit = "redirect"
               /\ loadedBy.by = "login"
               /\ redirectResponse # Null
               /\ currentUser' = redirectResponse.account
       /\ loadedBy'.by = "logout" =>
            /\ ~isAuthenticated'
            /\ currentUser' = Null]_vars

\* A session was left by logout(): the page it ended on has finished its
\* init() with no session, and the wizard asks for authentication.
C27_Witness ==
    /\ loadedBy = [by |-> "logout", left |-> TRUE]
    /\ authInit = "done"
    /\ ~isAuthenticated
    /\ currentUser = Null
    /\ wizPhase = "authRequired"

\* The step of the wizard's DOMContentLoaded handler, initializeApp.
WizardStarts ==
    /\ wizPhase = "constructed"
    /\ wizPhase' # "constructed"

\* C28: with an account cached by the provider when the page starts, the
\* wizard's initialization takes the authenticated branch, whatever the
\* order of AuthManager.init() and the DOMContentLoaded handler.
C28_CachedAccountMeansAuthenticatedBranch ==
    [][/\ WizardStarts
       /\ cachedAccounts # <<>>
       /\ redirectResponse = Null
       /\ authInit # "failed"
       => wizPhase' = "loading"]_vars


\* initializeApp has ended, on either branch.
InitFinished == wizPhase \in {"resumed", "shortCircuited", "authRequired"}

\* A step of nextStep, of prevStep or of the delayed advance.
NavigationStep == nextQ' # nextQ \/ currentStep' # currentStep

\* C31: once the initialization has finished, no operation of the wizard
\* takes a step flag or passwordlessEnabled from true to false, and the
\* navigation changes no flag at all.
C31_FlagsNeverCleared ==
    [][InitFinished /\ SamePage =>
         /\ userProgress.step1 => userProgress'.step1
         /\ userProgress.step2 => userProgress'.step2
         /\ userProgress.step3 => userProgress'.step3
         /\ userProgress.passwordlessEnabled =>
                userProgress'.passwordlessEnabled
         /\ NavigationStep => userProgress' = userProgress]_vars

\* After the initialization the wizard was stepped forward and back with
\* flags set, and they are still set.
C31_Witness ==
    /\ wizPhase = "resumed"
    /\ lastEvent.how = "completed"
    /\ userProgress.step1
    /\ userProgress.step2
    /\ currentStep = 1
    /\ storedProgress # Null
    /\ Parse(storedProgress).step2

\* C32: whenever isAuthenticated is true the provider client exists and has
\* been initialized and currentUser is an account; the two fields are set
\* together, so that currentUser is an account only when isAuthenticated is
\* true.
C32_AuthenticatedMeansClientAndAccount ==
    /\ isAuthenticated =>
         /\ msalInstance = Client
         /\ authInit \in {"redirect", "navigating", "done"}
         /\ currentUser = Account
    /\ currentUser # Null => isAuthenticated

\* The session was set from the response of a login redirect.
C32_Witness ==
    /\ isAuthenticated
    /\ currentUser = Account
    /\ msalInstance = Client
    /\ loadedBy.by = "login"
    /\ authInit = "navigating"

=============================================================================
